---- MODULE Spec2Model ----
(***************************************************************************)
(* Model of the appointment-booking screen                                 *)
(* src/app/(protected)/(tabs)/agendamento.tsx (component Agendamentos).    *)
(*                                                                         *)
(* The component state (the useState cells), the requests in flight and    *)
(* the user's and the backend's events are the state machine.  A handler   *)
(* and the reactive effects (useEffect) its state changes trigger are one  *)
(* atomic action: React runs the effects of a commit before it handles the *)
(* next event.  A Date is its local year, month and day; ISO dates and     *)
(* times are strings; searchable text is a sequence of one-character       *)
(* strings.                                                                *)
(***************************************************************************)
EXTENDS Integers, Sequences, FiniteSets, TLC

VARIABLES
  today,                 \* the day `new Date()` returns
  searchTerm, currentMonth,
  ubsList, vacinas, availableSlots,
  ubsLoading, calendarLoading, bookingLoading,
  selectedUbs, selectedVacina, selectedDate, availableTimesForDate, selectedTime,
  modalVisible,
  ubsReq,                \* GET /api/v1/ubs is in flight
  vaccinReqs,            \* GET /api/v1/ubs/{id}/vaccins in flight: id -> count
  slotReqs,              \* GET /api/v1/appointment/availableTime in flight: id -> count
  postReqs,              \* POST /api/v1/appointment bodies in flight
  last                   \* history: the event handled last, if a property speaks of
                         \* it, and (a press) whether it changed the selection

vars == <<today, searchTerm, currentMonth, ubsList, vacinas, availableSlots,
          ubsLoading, calendarLoading, bookingLoading, selectedUbs, selectedVacina,
          selectedDate, availableTimesForDate, selectedTime, modalVisible,
          ubsReq, vaccinReqs, slotReqs, postReqs, last>>

-----------------------------------------------------------------------------
(* Bounds of the model *)

\* vaccine fetches that may be in flight together
MaxVaccinFetches == 1
\* slot fetches that may be in flight together
MaxSlotFetches == 2
\* create-appointment requests that may be in flight together
MaxPosts == 2
\* months the calendar may be moved away from today's month
MaxMonthShift == 1
\* length of the slot lists enumerated by SpecTimes
MaxSlots == 3
\* days after 2023-12-01 that SpecCalendar takes as today
RefDays == 430
\* the facilities of a list of the search filter's check
MaxUbs == 2
\* the letters of a query of the search filter's check
MaxQueryLen == 2

\* null of a string-valued state cell (selectedDate, selectedTime)
NULL == "null"
\* null of an object-valued state cell (selectedUbs, selectedVacina)
NONE == 0

-----------------------------------------------------------------------------
(* JavaScript Date *)

\* Day number of year y, month m (1..12), day d; d may lie outside the month.
DaysFromCivil(y0, m, d) ==
  LET y   == IF m <= 2 THEN y0 - 1 ELSE y0
      era == y \div 400
      yoe == y - era * 400
      mp  == IF m > 2 THEN m - 3 ELSE m + 9
      doy == ((153 * mp + 2) \div 5) + d - 1
      doe == yoe * 365 + (yoe \div 4) - (yoe \div 100) + doy
  IN  era * 146097 + doe - 719468

\* <<year, month (1..12), day>> of a day number.
CivilFromDays(z0) ==
  LET z   == z0 + 719468
      era == z \div 146097
      doe == z - era * 146097
      yoe == (doe - (doe \div 1460) + (doe \div 36524) - (doe \div 146096)) \div 365
      doy == doe - (365 * yoe + (yoe \div 4) - (yoe \div 100))
      mp  == (5 * doy + 2) \div 153
      d   == doy - ((153 * mp + 2) \div 5) + 1
      m   == IF mp < 10 THEN mp + 3 ELSE mp - 9
      y   == yoe + era * 400 + (IF m <= 2 THEN 1 ELSE 0)
  IN  <<y, m, d>>

\* A Date is the record of its local year, month (0-based) and day of the month.
\* new Date(year, month, day): month and day overflow into the neighbouring ones.
NewDate(year, month, day) ==
  LET civil == CivilFromDays(
                 DaysFromCivil(year + (month \div 12), (month % 12) + 1, 1) + day - 1)
  IN  [year |-> civil[1], month |-> civil[2] - 1, day |-> civil[3]]

getFullYear(date) == date.year
getMonth(date)    == date.month
getDate(date)     == date.day
\* 0 (Sunday) .. 6 (Saturday); 1970-01-01 was a Thursday
getDay(date)      == (DaysFromCivil(date.year, date.month + 1, date.day) + 4) % 7

pad(value) == IF value < 10 THEN "0" \o ToString(value) ELSE ToString(value)

formatISODate(date) ==
  ToString(getFullYear(date)) \o "-" \o pad(getMonth(date) + 1) \o "-" \o pad(getDate(date))

\* the grid starts on day 1 of the month
buildCalendarMatrix_NoOffset(referenceDate) ==
  LET year   == getFullYear(referenceDate)
      month  == getMonth(referenceDate)
  IN  [week \in 1..6 |->
        [day \in 1..7 |-> NewDate(year, month, 1 + 7 * (week - 1) + (day - 1))]]

buildCalendarMatrix(referenceDate) ==
  LET year   == getFullYear(referenceDate)
      month  == getMonth(referenceDate)
      firstDayOfMonth == NewDate(year, month, 1)
      offset == getDay(firstDayOfMonth)
      start  == 1 - offset
  IN  [week \in 1..6 |->
        [day \in 1..7 |-> NewDate(year, month, start + 7 * (week - 1) + (day - 1))]]

-----------------------------------------------------------------------------
(* The backend's data: what the GET requests may answer *)

\* type Ubs (lines 23-33); an absent optional string is the empty text
UbsData ==
  << [id |-> 1, ubsName |-> <<"U", "b", "s">>, name |-> <<>>, hasAddress |-> TRUE,
      street |-> <<"R", "u", "a">>, neighborhood |-> <<>>, city |-> <<"S", "P">>,
      district |-> <<>>],
     [id |-> 2, ubsName |-> <<>>, name |-> <<"P", "a", "z">>, hasAddress |-> FALSE,
      street |-> <<>>, neighborhood |-> <<>>, city |-> <<>>, district |-> <<>>] >>

UbsIds == {UbsData[i].id : i \in 1..Len(UbsData)}

\* type Vaccin (lines 35-38): facility 1 offers one vaccine, facility 2 none
VaccinsOf(ubsId) ==
  IF ubsId = 1 THEN << [id |-> 1, name |-> "BCG"] >> ELSE << >>

\* type Slot (lines 40-43): facility 1 has three openings, facility 2 none
SlotsOf(ubsId) ==
  IF ubsId = 1
  THEN << [date |-> "2024-06-03", time |-> "09:00"],
          [date |-> "2024-06-03", time |-> "09:00"],
          [date |-> "2024-06-04", time |-> "10:00"] >>
  ELSE << >>

\* the days `new Date()` may return
Todays == {NewDate(2024, 5, 2)}

\* what the user may type in the search box
SearchTerms == {<<>>, <<"r", "U">>}

\* the dates a direct call of handleSelectDate may pass
DateStrings == {"2024-06-03", "2024-06-04", "2024-06-05", "2024-6-3"}

-----------------------------------------------------------------------------
(* Text: toLowerCase, includes, join *)

UpperLetters == <<"A","B","C","D","E","F","G","H","I","J","K","L","M",
                  "N","O","P","Q","R","S","T","U","V","W","X","Y","Z","Ç","Ã">>
LowerLetters == <<"a","b","c","d","e","f","g","h","i","j","k","l","m",
                  "n","o","p","q","r","s","t","u","v","w","x","y","z","ç","ã">>

toLowerCaseChar(c) ==
  IF \E i \in 1..Len(UpperLetters) : UpperLetters[i] = c
  THEN LowerLetters[CHOOSE i \in 1..Len(UpperLetters) : UpperLetters[i] = c]
  ELSE c

toLowerCase(text) == [i \in 1..Len(text) |-> toLowerCaseChar(text[i])]

includes(text, term) ==
  \E k \in 0..(Len(text) - Len(term)) :
     \A j \in 1..Len(term) : text[k + j] = term[j]

RECURSIVE join(_, _)
join(parts, sep) ==
  IF Len(parts) = 0 THEN <<>>
  ELSE IF Len(parts) = 1 THEN parts[1]
  ELSE parts[1] \o sep \o join(Tail(parts), sep)

NonEmptyText(text) == Len(text) > 0

formatAddress(ubs) ==
  IF ~ubs.hasAddress
  THEN <<"E","n","d","e","r","e","ç","o"," ","n","ã","o"," ",
         "i","n","f","o","r","m","a","d","o">>
  ELSE join(SelectSeq(<<ubs.street, ubs.neighborhood, ubs.city, ubs.district>>,
                      NonEmptyText), <<",", " ">>)

-----------------------------------------------------------------------------
(* The component state as one record *)

St ==
  [searchTerm |-> searchTerm, currentMonth |-> currentMonth, ubsList |-> ubsList,
   vacinas |-> vacinas, availableSlots |-> availableSlots, ubsLoading |-> ubsLoading,
   calendarLoading |-> calendarLoading, bookingLoading |-> bookingLoading,
   selectedUbs |-> selectedUbs, selectedVacina |-> selectedVacina,
   selectedDate |-> selectedDate, availableTimesForDate |-> availableTimesForDate,
   selectedTime |-> selectedTime, modalVisible |-> modalVisible,
   ubsReq |-> ubsReq, vaccinReqs |-> vaccinReqs, slotReqs |-> slotReqs,
   postReqs |-> postReqs,
   slotsGen |-> 0]       \* identity of the availableSlots array (a render's dependency)

Commit(s) ==
  /\ searchTerm' = s.searchTerm
  /\ currentMonth' = s.currentMonth
  /\ ubsList' = s.ubsList
  /\ vacinas' = s.vacinas
  /\ availableSlots' = s.availableSlots
  /\ ubsLoading' = s.ubsLoading
  /\ calendarLoading' = s.calendarLoading
  /\ bookingLoading' = s.bookingLoading
  /\ selectedUbs' = s.selectedUbs
  /\ selectedVacina' = s.selectedVacina
  /\ selectedDate' = s.selectedDate
  /\ availableTimesForDate' = s.availableTimesForDate
  /\ selectedTime' = s.selectedTime
  /\ modalVisible' = s.modalVisible
  /\ ubsReq' = s.ubsReq
  /\ vaccinReqs' = s.vaccinReqs
  /\ slotReqs' = s.slotReqs
  /\ postReqs' = s.postReqs

setAvailableSlots(s, slots) ==
  [s EXCEPT !.availableSlots = slots, !.slotsGen = @ + 1]

\* the id of the facility object selectedUbs refers to (a position in ubsList)
UbsIdOf(s) == s.ubsList[s.selectedUbs].id

Inc(reqs, id) == [reqs EXCEPT ![id] = @ + 1]
Dec(reqs, id) == [reqs EXCEPT ![id] = @ - 1]
RECURSIVE Total(_, _)
Total(reqs, ids) ==
  IF ids = {} THEN 0
  ELSE LET id == CHOOSE x \in ids : TRUE IN reqs[id] + Total(reqs, ids \ {id})
InFlight(reqs) == Total(reqs, DOMAIN reqs)

-----------------------------------------------------------------------------
(* Derived values (useMemo) *)

enabledDatesSet(s) == {s.availableSlots[i].date : i \in 1..Len(s.availableSlots)}

\* the address is not searched
UbsMatches_NameOnly(ubs, lowerTerm) ==
  includes(toLowerCase(IF Len(ubs.ubsName) > 0 THEN ubs.ubsName ELSE ubs.name), lowerTerm)

UbsMatches(ubs, lowerTerm) ==
  LET name    == toLowerCase(IF Len(ubs.ubsName) > 0 THEN ubs.ubsName ELSE ubs.name)
      address == toLowerCase(formatAddress(ubs))
  IN  includes(name, lowerTerm) \/ includes(address, lowerTerm)

filteredUbs(s) ==
  IF Len(s.searchTerm) = 0 THEN s.ubsList
  ELSE LET lowerTerm == toLowerCase(s.searchTerm)
           Keep(ubs) == UbsMatches(ubs, lowerTerm)
       IN  SelectSeq(s.ubsList, Keep)

calendarMatrix(s) == buildCalendarMatrix(s.currentMonth)

\* the list is copied as it is
Distinct_KeepsAll(list, seen) == seen \o list

\* [...new Set(list)]: the elements in the order of their first occurrence
RECURSIVE Distinct(_, _)
Distinct(list, seen) ==
  IF Len(list) = 0 THEN seen
  ELSE Distinct(Tail(list),
                IF \E i \in 1..Len(seen) : seen[i] = Head(list)
                THEN seen ELSE Append(seen, Head(list)))

-----------------------------------------------------------------------------
(* The effects.  r is the state of the render whose commit runs the effect *)
(* (what its closure reads), s the state its setters have produced so far. *)

\* the effect forgets to reset the vaccine
VaccinEffect_KeepsVacina(r, s) ==
  LET s1 == [setAvailableSlots(s, <<>>) EXCEPT
               !.selectedDate = NULL, !.selectedTime = NULL, !.currentMonth = today]
  IN  IF r.selectedUbs = NONE
      THEN [s1 EXCEPT !.vacinas = <<>>]
      ELSE [s1 EXCEPT !.vaccinReqs = Inc(@, UbsIdOf(r))]

\* lines 113-129
VaccinEffect(r, s) ==
  LET s1 == [setAvailableSlots(s, <<>>) EXCEPT
               !.selectedVacina = NONE, !.selectedDate = NULL,
               !.selectedTime = NULL, !.currentMonth = today]
  IN  IF r.selectedUbs = NONE
      THEN [s1 EXCEPT !.vacinas = <<>>]
      ELSE [s1 EXCEPT !.vaccinReqs = Inc(@, UbsIdOf(r))]

\* lines 131-144
SlotEffect(r, s) ==
  LET s1 == [setAvailableSlots(s, <<>>) EXCEPT
               !.selectedDate = NULL, !.selectedTime = NULL]
  IN  IF r.selectedUbs = NONE
      THEN s1
      ELSE [s1 EXCEPT !.calendarLoading = TRUE, !.slotReqs = Inc(@, UbsIdOf(r))]

\* the effect lists the times of the slots of every date
TimesEffect_AllTimes(r, s) ==
  IF r.selectedDate = NULL
  THEN [s EXCEPT !.availableTimesForDate = <<>>, !.selectedTime = NULL]
  ELSE LET horarios == [i \in 1..Len(r.availableSlots) |-> r.availableSlots[i].time]
       IN  [s EXCEPT !.availableTimesForDate = Distinct(horarios, <<>>),
                     !.selectedTime = NULL]

\* the effect forgets to reset the time of a selected date
TimesEffect_KeepsTime(r, s) ==
  IF r.selectedDate = NULL
  THEN [s EXCEPT !.availableTimesForDate = <<>>, !.selectedTime = NULL]
  ELSE LET Matches(slot) == slot.date = r.selectedDate
           matching == SelectSeq(r.availableSlots, Matches)
           horarios == [i \in 1..Len(matching) |-> matching[i].time]
       IN  [s EXCEPT !.availableTimesForDate = Distinct(horarios, <<>>)]

\* lines 146-159
TimesEffect(r, s) ==
  IF r.selectedDate = NULL
  THEN [s EXCEPT !.availableTimesForDate = <<>>, !.selectedTime = NULL]
  ELSE LET Matches(slot) == slot.date = r.selectedDate
           matching == SelectSeq(r.availableSlots, Matches)
           horarios == [i \in 1..Len(matching) |-> matching[i].time]
       IN  [s EXCEPT !.availableTimesForDate = Distinct(horarios, <<>>),
                     !.selectedTime = NULL]

\* React: after the render of state cur (the render before it had state prev), the
\* effects whose dependencies changed run in order; their updates make the next
\* render, until no dependency changes.
RECURSIVE RunEffects(_, _)
RunEffects(prev, cur) ==
  LET ubsChanged   == cur.selectedUbs # prev.selectedUbs
      timesChanged == \/ cur.selectedDate # prev.selectedDate
                      \/ cur.slotsGen # prev.slotsGen
      s2 == IF ubsChanged THEN VaccinEffect(cur, cur) ELSE cur
      s3 == IF ubsChanged THEN SlotEffect(cur, s2) ELSE s2
      s4 == IF timesChanged THEN TimesEffect(cur, s3) ELSE s3
  IN  IF ~ubsChanged /\ ~timesChanged THEN cur
      ELSE CHOOSE result \in {RunEffects(cur, next) : next \in {s4}} : TRUE

\* an event: the handler's updates on the current state, then the effects
Handle(next) == \E s \in {RunEffects(St, next)} : Commit(s)

-----------------------------------------------------------------------------
(* What the render of state s offers the user *)

UbsCardsShown(s) == ~s.ubsLoading /\ Len(filteredUbs(s)) > 0

VaccineChipsShown(s) == s.selectedUbs # NONE /\ Len(s.vacinas) > 0

CalendarShown(s) == ~s.calendarLoading /\ s.selectedUbs # NONE

isCurrentMonth(s, day) == getMonth(day) = getMonth(s.currentMonth)

\* a cell of a neighbouring month is enabled too
isEnabled_IgnoresMonth(s, day) == formatISODate(day) \in enabledDatesSet(s)

isEnabled(s, day) ==
  isCurrentMonth(s, day) /\ formatISODate(day) \in enabledDatesSet(s)

TimeChipsShown(s) == s.selectedDate # NULL /\ Len(s.availableTimesForDate) > 0

AllSelected(s) ==
  /\ s.selectedUbs # NONE
  /\ s.selectedVacina # NONE
  /\ s.selectedDate # NULL
  /\ s.selectedTime # NULL

\* the button stays enabled while a request is outstanding
SubmitDisabled_IgnoresLoading(s) == ~AllSelected(s)

SubmitDisabled(s) == ~AllSelected(s) \/ s.bookingLoading

-----------------------------------------------------------------------------
(* The handlers: the state their setters produce from state s *)

\* direction is 1 ('next') or -1 ('prev')
handleMonthChange(s, direction) ==
  LET prev == s.currentMonth
  IN  [s EXCEPT !.currentMonth =
         NewDate(getFullYear(prev), getMonth(prev) + direction, getDate(prev))]

\* the handler has no guard
handleSelectDate_NoCheck(s, date) == [s EXCEPT !.selectedDate = date]

handleSelectDate(s, date) ==
  IF date \notin enabledDatesSet(s) THEN s
  ELSE [s EXCEPT !.selectedDate = date]

BookingBody(s) ==
  [ubsId |-> UbsIdOf(s), vaccinId |-> s.selectedVacina,
   date |-> s.selectedDate \o "T" \o s.selectedTime, status |-> "scheduled"]

\* the guard forgets the time
handleConfirmBooking_NoTimeCheck(s) ==
  IF s.selectedUbs = NONE \/ s.selectedVacina = NONE \/ s.selectedDate = NULL THEN s
  ELSE [s EXCEPT !.bookingLoading = TRUE, !.postReqs = Append(@, BookingBody(s))]

\* lines 192-205: up to the await
handleConfirmBooking(s) ==
  IF ~AllSelected(s) THEN s
  ELSE [s EXCEPT !.bookingLoading = TRUE, !.postReqs = Append(@, BookingBody(s))]

\* the success path forgets the search text
BookingSucceeded_KeepsSearch(s) ==
  [s EXCEPT !.modalVisible = TRUE, !.selectedUbs = NONE, !.selectedVacina = NONE,
            !.selectedDate = NULL, !.selectedTime = NULL, !.bookingLoading = FALSE]

\* lines 207-212 and 216: the request resolved
BookingSucceeded(s) ==
  [s EXCEPT !.modalVisible = TRUE, !.selectedUbs = NONE, !.selectedVacina = NONE,
            !.selectedDate = NULL, !.selectedTime = NULL, !.searchTerm = <<>>,
            !.bookingLoading = FALSE]

\* the failure path has no finally
BookingFailed_KeepsLoading(s) == s

\* lines 213-217: the request was rejected
BookingFailed(s) == [s EXCEPT !.bookingLoading = FALSE]

Remove(seq, i) == SubSeq(seq, 1, i - 1) \o SubSeq(seq, i + 1, Len(seq))

MonthIndex(date) == getFullYear(date) * 12 + getMonth(date)

-----------------------------------------------------------------------------
(* Initial state: the useState initial values, then the effects of the mount *)

\* lines 85-102
InitialState ==
  [searchTerm |-> <<>>, currentMonth |-> today, ubsList |-> <<>>, vacinas |-> <<>>,
   availableSlots |-> <<>>, ubsLoading |-> FALSE, calendarLoading |-> FALSE,
   bookingLoading |-> FALSE, selectedUbs |-> NONE, selectedVacina |-> NONE,
   selectedDate |-> NULL, availableTimesForDate |-> <<>>, selectedTime |-> NULL,
   modalVisible |-> FALSE, ubsReq |-> FALSE,
   vaccinReqs |-> [id \in UbsIds |-> 0], slotReqs |-> [id \in UbsIds |-> 0],
   postReqs |-> <<>>, slotsGen |-> 0]

\* lines 104-111
UbsEffect(r, s) == [s EXCEPT !.ubsLoading = TRUE, !.ubsReq = TRUE]

Mounted ==
  LET r == InitialState
      s == TimesEffect(r, SlotEffect(r, VaccinEffect(r, UbsEffect(r, r))))
  IN  RunEffects(r, s)

StateIs(s) ==
  /\ searchTerm = s.searchTerm
  /\ currentMonth = s.currentMonth
  /\ ubsList = s.ubsList
  /\ vacinas = s.vacinas
  /\ availableSlots = s.availableSlots
  /\ ubsLoading = s.ubsLoading
  /\ calendarLoading = s.calendarLoading
  /\ bookingLoading = s.bookingLoading
  /\ selectedUbs = s.selectedUbs
  /\ selectedVacina = s.selectedVacina
  /\ selectedDate = s.selectedDate
  /\ availableTimesForDate = s.availableTimesForDate
  /\ selectedTime = s.selectedTime
  /\ modalVisible = s.modalVisible
  /\ ubsReq = s.ubsReq
  /\ vaccinReqs = s.vaccinReqs
  /\ slotReqs = s.slotReqs
  /\ postReqs = s.postReqs

\* an event no property speaks of
Other == [op |-> "other", arg |-> NONE]

Init ==
  /\ today \in Todays
  /\ StateIs(Mounted)
  /\ last = Other

-----------------------------------------------------------------------------
(* Responses of the backend *)

\* lines 108 and 110
UbsFetchSucceeds ==
  /\ ubsReq
  /\ Handle([St EXCEPT !.ubsList = UbsData, !.ubsLoading = FALSE, !.ubsReq = FALSE])
  /\ last' = Other
  /\ UNCHANGED today

\* the failure has no finally: the facility list keeps its loading indicator
UbsFetchFails_KeepsLoading ==
  /\ ubsReq
  /\ Handle([St EXCEPT !.ubsList = <<>>, !.ubsReq = FALSE])
  /\ last' = [op |-> "UbsFetchFails", arg |-> NONE]
  /\ UNCHANGED today

UbsFetchFails ==
  /\ ubsReq
  /\ Handle([St EXCEPT !.ubsList = <<>>, !.ubsLoading = FALSE, !.ubsReq = FALSE])
  /\ last' = [op |-> "UbsFetchFails", arg |-> NONE]
  /\ UNCHANGED today

\* line 127
VaccinFetchSucceeds(id) ==
  /\ vaccinReqs[id] > 0
  /\ Handle([St EXCEPT !.vacinas = VaccinsOf(id), !.vaccinReqs = Dec(@, id)])
  /\ last' = [op |-> "VaccinFetchSucceeds", arg |-> id]
  /\ UNCHANGED today

\* line 128
VaccinFetchFails(id) ==
  /\ vaccinReqs[id] > 0
  /\ Handle([St EXCEPT !.vacinas = <<>>, !.vaccinReqs = Dec(@, id)])
  /\ last' = [op |-> "VaccinFetchFails", arg |-> id]
  /\ UNCHANGED today

\* the response is dropped unless it is for the selected facility
SlotFetchSucceeds_DropsStale(id) ==
  /\ slotReqs[id] > 0
  /\ IF selectedUbs # NONE /\ UbsIdOf(St) = id
     THEN Handle([setAvailableSlots(St, SlotsOf(id)) EXCEPT
                    !.calendarLoading = FALSE, !.slotReqs = Dec(@, id)])
     ELSE Handle([St EXCEPT !.calendarLoading = FALSE, !.slotReqs = Dec(@, id)])
  /\ last' = [op |-> "SlotFetchSucceeds", arg |-> id]
  /\ UNCHANGED today

\* lines 141 and 143
SlotFetchSucceeds(id) ==
  /\ slotReqs[id] > 0
  /\ Handle([setAvailableSlots(St, SlotsOf(id)) EXCEPT
               !.calendarLoading = FALSE, !.slotReqs = Dec(@, id)])
  /\ last' = [op |-> "SlotFetchSucceeds", arg |-> id]
  /\ UNCHANGED today

\* the failure keeps the slots of the earlier response
SlotFetchFails_KeepsSlots(id) ==
  /\ slotReqs[id] > 0
  /\ Handle([St EXCEPT !.calendarLoading = FALSE, !.slotReqs = Dec(@, id)])
  /\ last' = [op |-> "SlotFetchFails", arg |-> id]
  /\ UNCHANGED today

\* lines 142 and 143
SlotFetchFails(id) ==
  /\ slotReqs[id] > 0
  /\ Handle([setAvailableSlots(St, <<>>) EXCEPT
               !.calendarLoading = FALSE, !.slotReqs = Dec(@, id)])
  /\ last' = [op |-> "SlotFetchFails", arg |-> id]
  /\ UNCHANGED today

\* the await of line 200 resolves
PostSucceeds(i) ==
  /\ i \in 1..Len(postReqs)
  /\ Handle(BookingSucceeded([St EXCEPT !.postReqs = Remove(@, i)]))
  /\ last' = [op |-> "PostSucceeds", arg |-> NONE]
  /\ UNCHANGED today

\* the await of line 200 rejects
PostFails(i) ==
  /\ i \in 1..Len(postReqs)
  /\ Handle(BookingFailed([St EXCEPT !.postReqs = Remove(@, i)]))
  /\ last' = [op |-> "PostFails", arg |-> NONE]
  /\ UNCHANGED today

-----------------------------------------------------------------------------
(* Events of the user, as the rendered screen allows them *)

\* line 244
ChangeSearchText(text) ==
  /\ text # searchTerm
  /\ Handle([St EXCEPT !.searchTerm = text])
  /\ last' = [op |-> "ChangeSearchText", arg |-> NONE]
  /\ UNCHANGED today

\* the facility object a card shows, as selectedUbs refers to it
RefOf(s, ubs) == CHOOSE i \in 1..Len(s.ubsList) : s.ubsList[i] = ubs

\* lines 258-266: the k-th card shown
PressUbsCard(k) ==
  /\ UbsCardsShown(St)
  /\ k \in 1..Len(filteredUbs(St))
  /\ LET ref == RefOf(St, filteredUbs(St)[k])
     IN  /\ ref # selectedUbs =>
               /\ InFlight(vaccinReqs) < MaxVaccinFetches
               /\ InFlight(slotReqs) < MaxSlotFetches
         /\ Handle([St EXCEPT !.selectedUbs = ref])
         /\ last' = [op |-> "PressUbsCard", arg |-> ref # selectedUbs]
  /\ UNCHANGED today

\* lines 288-294: the k-th chip shown
PressVaccineChip(k) ==
  /\ VaccineChipsShown(St)
  /\ k \in 1..Len(vacinas)
  /\ Handle([St EXCEPT !.selectedVacina = vacinas[k].id])
  /\ last' = Other
  /\ UNCHANGED today

\* lines 310 and 314
PressMonthButton(direction) ==
  /\ direction = 1  => MonthIndex(currentMonth) - MonthIndex(today) < MaxMonthShift
  /\ direction = -1 => MonthIndex(today) - MonthIndex(currentMonth) < MaxMonthShift
  /\ Handle(handleMonthChange(St, direction))
  /\ last' = [op |-> "PressMonthButton", arg |-> direction]
  /\ UNCHANGED today

\* lines 334-346: a cell of the grid
PressDayCell ==
  /\ CalendarShown(St)
  /\ availableSlots # <<>>       \* no cell is enabled otherwise
  /\ LET matrix == calendarMatrix(St)
     IN  \E week \in 1..6, col \in 1..7 :
           LET day == matrix[week][col]
           IN  /\ isEnabled(St, day)
               /\ Handle(handleSelectDate(St, formatISODate(day)))
               /\ last' = [op |-> "PressDayCell", arg |-> formatISODate(day) # selectedDate]
  /\ UNCHANGED today

\* lines 381-388: the k-th chip shown
PressTimeChip(k) ==
  /\ TimeChipsShown(St)
  /\ k \in 1..Len(availableTimesForDate)
  /\ Handle([St EXCEPT !.selectedTime = availableTimesForDate[k]])
  /\ last' = Other
  /\ UNCHANGED today

\* lines 397-403
PressSubmit ==
  /\ ~SubmitDisabled(St)
  /\ Len(postReqs) < MaxPosts
  /\ Handle(handleConfirmBooking(St))
  /\ last' = Other
  /\ UNCHANGED today

\* line 413
CloseModal ==
  /\ modalVisible
  /\ Handle([St EXCEPT !.modalVisible = FALSE])
  /\ last' = Other
  /\ UNCHANGED today

-----------------------------------------------------------------------------
(* Direct calls of the handlers, whatever the screen shows *)

CallSelectDate(date) ==
  /\ Handle(handleSelectDate(St, date))
  /\ last' = [op |-> "handleSelectDate", arg |-> date]
  /\ UNCHANGED today

CallConfirmBooking ==
  /\ Len(postReqs) < MaxPosts
  /\ Handle(handleConfirmBooking(St))
  /\ last' = [op |-> "handleConfirmBooking", arg |-> NONE]
  /\ UNCHANGED today

-----------------------------------------------------------------------------
(* Specifications *)

Backend ==
  \/ UbsFetchSucceeds
  \/ UbsFetchFails
  \/ \E id \in UbsIds : VaccinFetchSucceeds(id)
  \/ \E id \in UbsIds : VaccinFetchFails(id)
  \/ \E id \in UbsIds : SlotFetchSucceeds(id)
  \/ \E id \in UbsIds : SlotFetchFails(id)
  \/ \E i \in 1..MaxPosts : PostSucceeds(i)
  \/ \E i \in 1..MaxPosts : PostFails(i)

User ==
  \/ \E text \in SearchTerms : ChangeSearchText(text)
  \/ \E k \in 1..Len(UbsData) : PressUbsCard(k)
  \/ \E k \in 1..Len(vacinas) : PressVaccineChip(k)
  \/ \E direction \in {-1, 1} : PressMonthButton(direction)
  \/ PressDayCell
  \/ \E k \in 1..Len(availableTimesForDate) : PressTimeChip(k)
  \/ PressSubmit
  \/ CloseModal

Next == Backend \/ User

\* the screen as the user drives it
Spec == Init /\ [][Next]_vars

\* the handlers called directly, whatever the screen shows, in place of the presses
\* that reach them; the search box, the month buttons and the modal are left alone
NextHandlers ==
  \/ Backend
  \/ \E k \in 1..Len(UbsData) : PressUbsCard(k)
  \/ \E k \in 1..Len(vacinas) : PressVaccineChip(k)
  \/ \E k \in 1..Len(availableTimesForDate) : PressTimeChip(k)
  \/ \E date \in DateStrings : CallSelectDate(date)
  \/ CallConfirmBooking

SpecHandlers == Init /\ [][NextHandlers]_vars

\* the slot lists the backend may answer in SpecTimes
SlotAlphabet ==
  [date : {"2024-06-03", "2024-06-04"}, time : {"09:00", "10:00"}]

SlotLists == UNION {[1..n -> SlotAlphabet] : n \in 0..MaxSlots}

\* facility 1 is selected and its fetches have been answered, the slots by any list
InitTimes ==
  /\ today \in Todays
  /\ \E slots \in SlotLists :
       StateIs([Mounted EXCEPT !.ubsList = UbsData, !.ubsLoading = FALSE,
                               !.ubsReq = FALSE, !.selectedUbs = 1,
                               !.vacinas = VaccinsOf(1), !.availableSlots = slots])
  /\ last = Other

NextTimes ==
  \/ PressDayCell
  \/ \E k \in 1..Len(availableTimesForDate) : PressTimeChip(k)

\* the time list of the selected date, over the slot lists
SpecTimes == InitTimes /\ [][NextTimes]_vars

\* the screen is mounted on any day of a range that holds a leap day and two
\* turns of the year
InitCalendar ==
  /\ today \in {NewDate(2023, 11, 1 + k) : k \in 0..RefDays}
  /\ StateIs(Mounted)
  /\ last = Other

NextCalendar == \E direction \in {-1, 1} : PressMonthButton(direction)

\* the calendar grid, over the reference dates
SpecCalendar == InitCalendar /\ [][NextCalendar]_vars

\* The search filter over facility lists and queries.  A facility of the lists has
\* both names, and an address without parts.
UbsPool ==
  {UbsData[1], UbsData[2],
   [id |-> 2, ubsName |-> <<"S", "u", "l">>, name |-> <<"R", "u", "a">>,
    hasAddress |-> TRUE, street |-> <<>>, neighborhood |-> <<>>, city |-> <<>>,
    district |-> <<>>]}

\* the lists GET /api/v1/ubs may answer: facilities with distinct ids
UbsLists ==
  {list \in UNION {[1..n -> UbsPool] : n \in 0..MaxUbs} :
     \A i, j \in 1..Len(list) : list[i].id = list[j].id => i = j}

QueryLetters == {"r", "U", "a", "Ç", "O", "p"}

SearchQueries == UNION {[1..n -> QueryLetters] : n \in 0..MaxQueryLen}

InitSearch ==
  /\ today \in Todays
  /\ \E list \in UbsLists :
       StateIs([Mounted EXCEPT !.ubsList = list, !.ubsLoading = FALSE, !.ubsReq = FALSE])
  /\ last = Other

NextSearch ==
  \/ \E text \in SearchQueries : ChangeSearchText(text)
  \/ \E k \in 1..MaxUbs : PressUbsCard(k)

SpecSearch == InitSearch /\ [][NextSearch]_vars

\* The screen with a backend that answers every request: each kind of request that
\* is outstanding is eventually answered.  The presses are those that lead to a
\* request.
NextLive ==
  \/ Backend
  \/ \E k \in 1..Len(UbsData) : PressUbsCard(k)
  \/ \E k \in 1..Len(vacinas) : PressVaccineChip(k)
  \/ PressDayCell
  \/ \E k \in 1..Len(availableTimesForDate) : PressTimeChip(k)
  \/ PressSubmit

EveryRequestIsAnswered ==
  /\ WF_vars(UbsFetchSucceeds \/ UbsFetchFails)
  /\ \A id \in UbsIds : WF_vars(VaccinFetchSucceeds(id) \/ VaccinFetchFails(id))
  /\ \A id \in UbsIds : WF_vars(SlotFetchSucceeds(id) \/ SlotFetchFails(id))
  /\ WF_vars(\E i \in 1..MaxPosts : PostSucceeds(i) \/ PostFails(i))

SpecLive == Init /\ [][NextLive]_vars /\ EveryRequestIsAnswered

-----------------------------------------------------------------------------
(* Properties *)

\* the program's state, without the history
progVars == <<today, searchTerm, currentMonth, ubsList, vacinas, availableSlots,
              ubsLoading, calendarLoading, bookingLoading, selectedUbs, selectedVacina,
              selectedDate, availableTimesForDate, selectedTime, modalVisible,
              ubsReq, vaccinReqs, slotReqs, postReqs>>

SomeSelectionEmpty ==
  \/ selectedUbs = NONE
  \/ selectedVacina = NONE
  \/ selectedDate = NULL
  \/ selectedTime = NULL

\* the dates that have a slot in a slot list
DatesOf(slots) == {slots[i].date : i \in 1..Len(slots)}

\* the times of the slots of a date in a slot list
TimesOf(slots, date) ==
  {slots[i].time : i \in {j \in 1..Len(slots) : slots[j].date = date}}

NoRepeat(list) ==
  \A i, j \in 1..Len(list) : list[i] = list[j] => i = j

\* list holds the distinct times of the slots of the date
IsTimeListOf(list, slots, date) ==
  /\ NoRepeat(list)
  /\ {list[i] : i \in 1..Len(list)} = TimesOf(slots, date)

\* C1: when a selection is empty, a call of handleConfirmBooking sends no request
\* and leaves bookingLoading as it was (false when it was false).
C1_BlockedSubmitSendsNothing ==
  [][(last'.op = "handleConfirmBooking" /\ SomeSelectionEmpty)
       => (postReqs' = postReqs /\ bookingLoading' = bookingLoading)]_vars

\* facility, vaccine and date are set, the time is not, and the handler was called
C1_Witness ==
  /\ last.op = "handleConfirmBooking"
  /\ selectedUbs # NONE /\ selectedVacina # NONE /\ selectedDate # NULL
  /\ selectedTime = NULL
  /\ postReqs = <<>> /\ ~bookingLoading

\* C2: at most one create-appointment request is outstanding at any time.
C2_OneSubmissionInFlight == Len(postReqs) <= 1

\* a request is outstanding and only bookingLoading disables the button
C2_Witness ==
  /\ Len(postReqs) = 1
  /\ bookingLoading
  /\ ~SomeSelectionEmpty

\* C3 as stated: the press of any facility card leaves vaccine, date and time null
\* and the slot list empty.
C3_AnyCardPressClears ==
  [][last'.op = "PressUbsCard"
       => /\ selectedVacina' = NONE
          /\ selectedDate' = NULL
          /\ selectedTime' = NULL
          /\ availableSlots' = <<>>]_vars

\* C3 amended: the press of the card of a facility other than the selected one
\* leaves vaccine, date and time null and the slot list empty; the press of the
\* selected facility's card changes nothing.
C3_OtherCardPressClears ==
  [][last'.op = "PressUbsCard"
       => IF selectedUbs' # selectedUbs
          THEN /\ selectedVacina' = NONE
               /\ selectedDate' = NULL
               /\ selectedTime' = NULL
               /\ availableSlots' = <<>>
          ELSE UNCHANGED progVars]_vars

\* facility 2 was pressed while facility 1's vaccine list was shown
C3_Witness ==
  /\ last = [op |-> "PressUbsCard", arg |-> TRUE]
  /\ selectedUbs = 2
  /\ vacinas # <<>>
  /\ selectedVacina = NONE /\ selectedDate = NULL /\ selectedTime = NULL
  /\ availableSlots = <<>>

\* C4 as stated: the press of any enabled date cell leaves the time null and the
\* time list the distinct times of the date's slots.
C4_AnyDatePressClearsTime ==
  [][last'.op = "PressDayCell"
       => /\ selectedTime' = NULL
          /\ IsTimeListOf(availableTimesForDate', availableSlots', selectedDate')]_vars

\* C4 amended: the press of an enabled date cell leaves the time list the distinct
\* times of the date's slots; it leaves the time null when the date differs from the
\* selected one, and as it was when the date is the selected one.
C4_OtherDatePressClearsTime ==
  [][last'.op = "PressDayCell"
       => /\ IsTimeListOf(availableTimesForDate', availableSlots', selectedDate')
          /\ selectedDate' # NULL
          /\ IF selectedDate' # selectedDate
             THEN selectedTime' = NULL
             ELSE selectedTime' = selectedTime]_vars

\* another date was pressed; its times are listed and none is selected
C4_Witness ==
  /\ last = [op |-> "PressDayCell", arg |-> TRUE]
  /\ selectedDate = "2024-06-04"
  /\ availableTimesForDate = <<"10:00">>
  /\ selectedTime = NULL

\* C5: when a create-appointment request succeeds, facility, vaccine, date and time
\* are null, the search text is empty and the modal is visible.
C5_SuccessResetsSelection ==
  [][last'.op = "PostSucceeds"
       => /\ selectedUbs' = NONE
          /\ selectedVacina' = NONE
          /\ selectedDate' = NULL
          /\ selectedTime' = NULL
          /\ searchTerm' = <<>>
          /\ modalVisible']_vars

\* the request succeeded after the user had pressed another facility's card
C5_Witness ==
  /\ last.op = "PostSucceeds"
  /\ selectedUbs = NONE /\ searchTerm = <<>> /\ modalVisible
  /\ InFlight(slotReqs) > 0

\* C6: when a create-appointment request fails, facility, vaccine, date, time and
\* search text keep their values, the modal is not shown and bookingLoading is false.
C6_FailureKeepsSelection ==
  [][last'.op = "PostFails"
       => /\ UNCHANGED <<selectedUbs, selectedVacina, selectedDate, selectedTime,
                          searchTerm, modalVisible>>
          /\ bookingLoading' = FALSE]_vars

\* the request failed and the selection can be submitted again
C6_Witness ==
  /\ last.op = "PostFails"
  /\ ~SomeSelectionEmpty
  /\ searchTerm # <<>>
  /\ ~modalVisible
  /\ ~SubmitDisabled(St)

InDisplayedMonth(day) ==
  day.year = currentMonth.year /\ day.month = currentMonth.month

\* C7: a cell of the shown grid can be pressed exactly when its day is of the
\* displayed month and its ISO date is the date of a slot of availableSlots.
C7_CellEnabledIffAvailable ==
  CalendarShown(St) =>
    LET matrix == calendarMatrix(St)
    IN  \A week \in 1..6, col \in 1..7 :
          isEnabled(St, matrix[week][col])
            <=> /\ InDisplayedMonth(matrix[week][col])
                /\ formatISODate(matrix[week][col]) \in DatesOf(availableSlots)

\* the grid of May shows the available 3 June, disabled, and the grid of another
\* state has an enabled cell
C7_Witness ==
  /\ CalendarShown(St)
  /\ currentMonth.month = 4
  /\ \E week \in 1..6, col \in 1..7 :
       LET day == calendarMatrix(St)[week][col]
       IN  /\ formatISODate(day) = "2024-06-03"
           /\ "2024-06-03" \in DatesOf(availableSlots)
           /\ ~isEnabled(St, day)

\* C8: a call of handleSelectDate with a date that no slot of availableSlots has
\* changes nothing.
C8_DisabledDateIsNoOp ==
  [][(last'.op = "handleSelectDate" /\ last'.arg \notin DatesOf(availableSlots))
       => UNCHANGED progVars]_vars

\* the handler was called with a date without slots while another date was selected
C8_Witness ==
  /\ last.op = "handleSelectDate"
  /\ last.arg \notin DatesOf(availableSlots)
  /\ availableSlots # <<>>
  /\ selectedDate # NULL

DaysInMonth(year, month) ==
  IF month = 1
  THEN IF (year % 4 = 0 /\ year % 100 # 0) \/ year % 400 = 0 THEN 29 ELSE 28
  ELSE IF month \in {3, 5, 8, 10} THEN 30 ELSE 31

IsCalendarDay(date) ==
  /\ date.month \in 0..11
  /\ date.day \in 1..DaysInMonth(date.year, date.month)

DayNumber(date) == DaysFromCivil(date.year, date.month + 1, date.day)

\* C9: the matrix has 6 rows of 7 cells, which hold 42 consecutive calendar days
\* from the Sunday on or before day 1 of the reference month.
C9_MatrixIsSixWeeksFromSunday ==
  LET matrix == buildCalendarMatrix(currentMonth)
      first  == matrix[1][1]
      day1   == [year |-> currentMonth.year, month |-> currentMonth.month, day |-> 1]
  IN  /\ DOMAIN matrix = 1..6
      /\ \A week \in 1..6 :
           /\ DOMAIN matrix[week] = 1..7
           /\ \A col \in 1..7 :
                /\ IsCalendarDay(matrix[week][col])
                /\ DayNumber(matrix[week][col])
                     = DayNumber(first) + 7 * (week - 1) + (col - 1)
      /\ getDay(first) = 0
      /\ DayNumber(day1) - DayNumber(first) \in 0..6

\* the month was changed and the grid starts in the month before and ends in the
\* month after
C9_Witness ==
  /\ currentMonth # today
  /\ buildCalendarMatrix(currentMonth)[1][1].month # currentMonth.month
  /\ buildCalendarMatrix(currentMonth)[6][7].month # currentMonth.month
  /\ currentMonth.month = 1 /\ currentMonth.year = 2024

\* the index of the first slot of a date and a time
FirstSlot(slots, date, time) ==
  CHOOSE i \in 1..Len(slots) :
    /\ slots[i].date = date /\ slots[i].time = time
    /\ \A j \in 1..(i - 1) : ~(slots[j].date = date /\ slots[j].time = time)

\* C10: the time list of the selected date has no repeated element, holds exactly
\* the times of the date's slots, and orders them by their first slot.
C10_TimesDistinctInFirstOrder ==
  selectedDate # NULL =>
    /\ IsTimeListOf(availableTimesForDate, availableSlots, selectedDate)
    /\ \A i, j \in 1..Len(availableTimesForDate) :
         i < j => FirstSlot(availableSlots, selectedDate, availableTimesForDate[i])
                    < FirstSlot(availableSlots, selectedDate, availableTimesForDate[j])

\* the slots of the example, 3 June selected: the list is 09:00 once
C10_Witness ==
  /\ availableSlots = << [date |-> "2024-06-03", time |-> "09:00"],
                          [date |-> "2024-06-03", time |-> "09:00"],
                          [date |-> "2024-06-04", time |-> "10:00"] >>
  /\ selectedDate = "2024-06-03"
  /\ availableTimesForDate = <<"09:00">>

DisplayName(ubs) == IF ubs.ubsName # <<>> THEN ubs.ubsName ELSE ubs.name

SameLetterIgnoringCase(a, b) ==
  \/ a = b
  \/ \E i \in 1..Len(UpperLetters) : {a, b} = {UpperLetters[i], LowerLetters[i]}

ContainsIgnoringCase(text, query) ==
  \E k \in 0..(Len(text) - Len(query)) :
     \A j \in 1..Len(query) : SameLetterIgnoringCase(text[k + j], query[j])

\* the positions of a list of the facilities that match a query
MatchingPositions(list, query) ==
  {i \in 1..Len(list) :
     \/ ContainsIgnoringCase(DisplayName(list[i]), query)
     \/ ContainsIgnoringCase(formatAddress(list[i]), query)}

\* the k-th smallest position of a set of positions
KthOf(positions, k) ==
  CHOOSE i \in positions : Cardinality({j \in positions : j < i}) = k - 1

FilterIsCorrect ==
  LET filtered  == filteredUbs(St)
      positions == MatchingPositions(ubsList, searchTerm)
  IN  /\ searchTerm = <<>> => filtered = ubsList
      /\ Len(filtered) = Cardinality(positions)
      /\ \A k \in 1..Len(filtered) : filtered[k] = ubsList[KthOf(positions, k)]

\* C12: after a change of the search text the filtered list is ubsList itself when
\* the text is empty, and otherwise holds, in the order of ubsList, exactly the
\* facilities whose display name or formatted address contains the text, letter
\* case ignored; the change modifies neither ubsList nor a selection.
C12_FilterIsCaseInsensitiveSubsequence ==
  /\ [](last.op = "ChangeSearchText" => FilterIsCorrect)
  /\ [][last'.op = "ChangeSearchText"
          => UNCHANGED <<ubsList, selectedUbs, selectedVacina, selectedDate,
                         selectedTime>>]_vars

\* a query in capitals matched the address placeholder of the second facility only,
\* while the first facility was selected
C12_Witness ==
  /\ last.op = "ChangeSearchText"
  /\ searchTerm = <<"Ç", "O">>
  /\ Len(ubsList) = 2
  /\ filteredUbs(St) = <<ubsList[2]>>
  /\ selectedUbs = 1

\* C13: a response of a vaccine fetch or of a slot fetch is stored as the vaccine
\* list or the slot list whatever facility is selected when it arrives, so the
\* stored list may be that of a facility other than the selected one.
C13_ResponsesIgnoreSelection ==
  [][/\ last'.op = "VaccinFetchSucceeds" => vacinas' = VaccinsOf(last'.arg)
     /\ last'.op = "SlotFetchSucceeds" => availableSlots' = SlotsOf(last'.arg)]_vars

\* facility 2 is selected and the late response of facility 1's slot fetch has
\* stored facility 1's slots, next to facility 1's vaccines
C13_Witness ==
  /\ last = [op |-> "SlotFetchSucceeds", arg |-> 1]
  /\ selectedUbs # NONE
  /\ UbsIdOf(St) = 2
  /\ availableSlots = SlotsOf(1) /\ availableSlots # SlotsOf(2)
  /\ vacinas = VaccinsOf(1) /\ vacinas # VaccinsOf(2)

\* no facility is selected and a late response has stored slots
C13_NoFacilityWithSlots ==
  /\ selectedUbs = NONE
  /\ availableSlots # <<>>
  /\ vacinas # <<>>

\* the body pairs its facility with a vaccine and a slot the backend answers for
\* that facility
PairsFacilityData(body) ==
  /\ \E i \in 1..Len(VaccinsOf(body.ubsId)) : VaccinsOf(body.ubsId)[i].id = body.vaccinId
  /\ \E i \in 1..Len(SlotsOf(body.ubsId)) :
       body.date = SlotsOf(body.ubsId)[i].date \o "T" \o SlotsOf(body.ubsId)[i].time

\* C14 as stated: every create-appointment request sent pairs its facility with a
\* vaccine of the vaccine list of that facility and a date and time of a slot of
\* that facility.
C14_PostPairsFacilityData ==
  \A i \in 1..Len(postReqs) : PairsFacilityData(postReqs[i])

\* a request for facility 1 with its own vaccine and slot is outstanding
C14_OwnDataPosted ==
  \E i \in 1..Len(postReqs) :
    postReqs[i].ubsId = 1 /\ PairsFacilityData(postReqs[i])

\* C15: a selected time comes with a selected date, the two are the date and the
\* time of a slot of availableSlots, and the time is in the time list.
C15_SelectedTimeIsASlot ==
  selectedTime # NULL =>
    /\ selectedDate # NULL
    /\ \E i \in 1..Len(availableSlots) :
         availableSlots[i] = [date |-> selectedDate, time |-> selectedTime]
    /\ \E k \in 1..Len(availableTimesForDate) : availableTimesForDate[k] = selectedTime

\* a time is selected and the slot list holds slots of another date and time too
C15_Witness ==
  /\ selectedTime = "10:00"
  /\ selectedDate = "2024-06-04"
  /\ \E i \in 1..Len(availableSlots) : availableSlots[i].time # selectedTime

\* C16 as stated: a selected date is the date of a slot of availableSlots.
C16_SelectedDateIsAvailable ==
  selectedDate # NULL => selectedDate \in DatesOf(availableSlots)

\* a date is selected and it is the date of a slot
C16_AvailableDateSelected ==
  selectedDate # NULL /\ selectedDate \in DatesOf(availableSlots)

\* C17 as stated: calendarLoading is true whenever a slot fetch is in flight.
C17_LoadingCoversSlotFetches ==
  InFlight(slotReqs) > 0 => calendarLoading

\* C18 as stated: a press of the 'next' button leaves the displayed month the
\* calendar month after the one displayed before, a press of 'prev' the month before.
C18_MonthMovesByOne ==
  [][last'.op = "PressMonthButton"
       => MonthIndex(currentMonth') = MonthIndex(currentMonth) + last'.arg]_vars

\* 'next' was pressed and the month after is displayed
C18_MovedByOne ==
  /\ last = [op |-> "PressMonthButton", arg |-> 1]
  /\ MonthIndex(currentMonth) = MonthIndex(today) + 1

\* C19: when every request is answered, bookingLoading, ubsLoading and
\* calendarLoading, once true, are each false at some later time.
C19_LoadingFlagsAreReleased ==
  /\ bookingLoading ~> ~bookingLoading
  /\ ubsLoading ~> ~ubsLoading
  /\ calendarLoading ~> ~calendarLoading

\* a booking and two slot fetches are outstanding, both flags are true
C19_Witness ==
  /\ bookingLoading /\ Len(postReqs) = 1
  /\ calendarLoading /\ InFlight(slotReqs) = 2

TypeOK ==
  /\ selectedUbs \in 0..Len(ubsList)
  /\ ubsLoading \in BOOLEAN /\ calendarLoading \in BOOLEAN /\ bookingLoading \in BOOLEAN
  /\ InFlight(vaccinReqs) <= MaxVaccinFetches /\ InFlight(slotReqs) <= MaxSlotFetches
  /\ Len(postReqs) <= MaxPosts

====
